---- MODULE Spec2Model ----
(***************************************************************************)
(* BrowserUseAgent (src/exe_agent/browser_use_agent.py): the runbook       *)
(* interpreter run_runbook, its six action handlers, the browser methods   *)
(* they call and the instance-driver lifecycle (get_new_driver,            *)
(* _get_instance_driver, close).                                           *)
(*                                                                         *)
(* A browser session is an entry of the sequence `sessions`; a driver      *)
(* handle is the index of its session, 0 standing for Python's None.       *)
(* The file is read one line at a time: the interpreter never looks ahead  *)
(* or back, so the line it is at is chosen when the loop reaches it.       *)
(* `calls` holds the calls the latest step made on browser sessions,       *)
(* subprocesses and the HTTP client, in order.  The outcomes of those      *)
(* calls are chosen by the environment.                                    *)
(***************************************************************************)
EXTENDS Integers, Sequences, FiniteSets, TLC

VARIABLES
    sessions,                \* browser sessions constructed so far
    driver,                  \* self.driver: the instance driver, 0 = None
    current_url,             \* self.current_url
    line,                    \* run_runbook: the line the loop is at
    lineNo,                  \* run_runbook: line_num, the number of that line
    current_runbook_driver,  \* run_runbook: the handle threaded through handlers
    current_step_label,      \* run_runbook: the label of the current step
    pc,                      \* run_runbook: where the call stands
    exc,                     \* the exception in flight / escaped from run_runbook
    dispatched,              \* run_runbook: line numbers handed to a handler
    boundary,                \* where the interpreter stands: the number of the
                             \* run_runbook call, the sessions constructed
                             \* before it and the agent's fields when it began
                             \* (run, base, driver, live, url), the latest
                             \* step-label line and the sessions constructed
                             \* before it (line, sessions)
    calls,                   \* the external calls made by the latest step, in order
    history,                 \* AIAgent.history (src/ai_agent/src/agent.py)
    asked                    \* the calls made on the AIAgent's three methods

vars == <<sessions, driver, current_url, line, lineNo,
          current_runbook_driver, current_step_label, pc, exc, dispatched,
          boundary, calls, history, asked>>

(***************************************************************************)
(* Bounds and values                                                       *)
(***************************************************************************)
MaxLines == 3          \* lines of a runbook file
MaxRuns == 2           \* run_runbook calls on one agent
MaxDrivers == 1        \* sessions after which the caller makes no further call
MaxActions == 3        \* actions an AIAgent is asked to perform

None == "<None>"       \* Python's None where a string is expected
Absent == "<absent>"   \* a message that does not mention the field
U1 == "http://example.com"
U2 == "http://example.com/external"

(***************************************************************************)
(* Runbook lines.  A line is held by what strip(), startswith('#'),        *)
(* startswith('ACTION:') and find('ACTION:') see of it: `pre` is the       *)
(* stripped text before the marker (the whole stripped line when there is  *)
(* no marker), `marker` says that the line contains 'ACTION:', and `toks`  *)
(* are the whitespace-separated tokens after the marker.  A token is a     *)
(* bare word or key=value with the quote characters around the value.      *)
(***************************************************************************)
Word(w) == [eq |-> FALSE, key |-> "", val |-> w, lq |-> "", rq |-> ""]
KV(k, v) == [eq |-> TRUE, key |-> k, val |-> v, lq |-> "", rq |-> ""]
QKV(k, v) == [eq |-> TRUE, key |-> k, val |-> v, lq |-> "\"", rq |-> "\""]
\* the tokens split() makes of key="v w": key="v and w"
QOpen(k, v) == [eq |-> TRUE, key |-> k, val |-> v, lq |-> "\"", rq |-> ""]
QClose(w) == [eq |-> FALSE, key |-> "", val |-> w, lq |-> "", rq |-> "\""]

TextLine(t) == [pre |-> t, marker |-> FALSE, toks |-> <<>>]
ActionLine(p, ts) == [pre |-> p, marker |-> TRUE, toks |-> ts]

BlankLine == TextLine("")
CommentLine == TextLine("# note")
\* '# ACTION: go_to url="http://example.com"': an action commented out
CommentedActionLine == ActionLine("#", <<Word("go_to"), QKV("url", U1)>>)
Step1Line == TextLine("Step1:")
GoToLine == ActionLine("", <<Word("go_to"), QKV("url", U1)>>)
GoToNoUrlLine == ActionLine("", <<Word("go_to")>>)
SearchNoSelectorLine == ActionLine("", <<Word("search"), QKV("query", "q")>>)
SearchLine == ActionLine("", <<Word("search"), QKV("query", "q"), QKV("selector", "input")>>)
\* ACTION: search query="a b" selector=input
SearchPhraseLine ==
    ActionLine("", <<Word("search"), QOpen("query", "a"), QClose("b"),
                     KV("selector", "input")>>)
GetTextNoSelectorLine == ActionLine("", <<Word("get_text")>>)
GetTextLine == ActionLine("", <<Word("get_text"), QKV("selector", "h1")>>)
ScreenshotLine == ActionLine("", <<Word("screenshot")>>)
CliNoCommandLine == ActionLine("", <<Word("cli")>>)
CliLine == ActionLine("", <<Word("cli"), KV("command", "x")>>)
\* ACTION: api url=""
ApiEmptyUrlLine == ActionLine("", <<Word("api"), QKV("url", "")>>)
ApiLine == ActionLine("", <<Word("api"), KV("url", U1)>>)
UnknownLine == ActionLine("", <<Word("unknown_action"), KV("x", "1")>>)
EmptyActionLine == ActionLine("", <<>>)
PrefixedLine == ActionLine("Deploy", <<Word("cli"), KV("command", "x")>>)

\* the lines runbooks are made of: one for every branch of the interpreter's
\* loop and for every handler
LineAlphabet ==
    {BlankLine, CommentLine, CommentedActionLine, Step1Line, GoToLine,
     GoToNoUrlLine, SearchLine, SearchNoSelectorLine, SearchPhraseLine,
     GetTextLine, GetTextNoSelectorLine, ScreenshotLine, CliLine,
     CliNoCommandLine, ApiLine, ApiEmptyUrlLine, UnknownLine, EmptyActionLine,
     PrefixedLine}

\* a variant of the loop whose skip test is `if not line` only
NoCommentTest(l) == FALSE

\* str.startswith('#') on the stripped line
StartsWithHash(l) == l.pre \in {"# note", "#"}

\* line.strip(':') on a step-label line
StripColons(l) ==
    IF l.marker THEN l.pre \o " ACTION: " \o l.toks[1].val \o " ..."
    ELSE IF l.pre = "Step1:" THEN "Step1" ELSE l.pre

\* a variant of the loop body whose label test is `'ACTION:' not in line` and
\* whose action test is `line.startswith('ACTION:')`
ClassifyByMarkerFirst(l) ==
    IF (l.pre = "" /\ ~l.marker) \/ StartsWithHash(l) THEN "skip"
    ELSE IF ~l.marker THEN "label"
    ELSE IF l.pre = "" THEN "action"
    ELSE "malformed"

\* The branch of the loop body of run_runbook a line takes.
Classify(l) ==
    IF (l.pre = "" /\ ~l.marker) \/ StartsWithHash(l) THEN "skip"
    ELSE IF ~(l.pre = "" /\ l.marker) THEN "label"
    ELSE IF l.marker THEN "action"
    ELSE "malformed"

(***************************************************************************)
(* _parse_action_line                                                      *)
(***************************************************************************)
ParamKeys == {"url", "query", "selector", "submit", "name_prefix", "command", "method", "x"}
NoParams == [k \in ParamKeys |-> None]

\* the value of a key=value token once matching quotes are removed
Unquote(t) ==
    IF t.lq = "\"" /\ t.rq = "\"" THEN t.val
    ELSE IF t.lq = "'" /\ t.rq = "'" THEN t.val
    ELSE t.lq \o t.val \o t.rq

RECURSIVE ParseParams(_, _, _)
ParseParams(parts, i, params) ==
    IF i > Len(parts) THEN params
    ELSE ParseParams(parts, i + 1,
            IF parts[i].eq THEN [params EXCEPT ![parts[i].key] = Unquote(parts[i])]
            ELSE params)

\* parts[0] raises IndexError on an empty action text
_parse_action_line(parts) ==
    IF Len(parts) = 0 THEN [exc |-> "IndexError", action |-> Absent, params |-> NoParams]
    ELSE [exc |-> "", action |-> parts[1].val, params |-> ParseParams(parts, 2, NoParams)]

(***************************************************************************)
(* The agent's world as the methods see it, and the results of calls       *)
(***************************************************************************)
W == [sessions |-> sessions, driver |-> driver, current_url |-> current_url,
      trace |-> <<>>]

Ev(op, s, url) == [op |-> op, s |-> s, url |-> url]
Log(w, e) == [w EXCEPT !.trace = Append(@, e)]

Returns(w, v) == [w |-> w, exc |-> "", ret |-> v]
Raises(w, kind) == [w |-> w, exc |-> kind, ret |-> 0]

(***************************************************************************)
(* Outcomes the environment chooses for the external calls                 *)
(***************************************************************************)
ChromeOutcomes == {"ok", "fail", "cfgfail"}   \* cfgfail: implicitly_wait raises
GetOutcomes == {"ok", "timeout", "fault"}
ElementOutcomes == {"ok", "fault"}
QuitOutcomes == {"ok", "fault"}
OsaOutcomes == {"ran", "missing", "timeout", "error"}
ProcessOutcomes == {"ok", "nonzero", "killed", "timeout", "oserror"}
HttpOutcomes == {"ok", "status", "transport"}

\* One outcome for each call a handler can make.  The outcome of a call that
\* is not made - a second attempt after a first that succeeded, the quit of
\* close() when nothing failed - is not varied.
Env == {env \in [a1 : ChromeOutcomes, a2 : ChromeOutcomes, g : GetOutcomes,
                 e : ElementOutcomes, q : QuitOutcomes] :
           /\ env.a1 = "ok" => env.a2 = "ok"
           /\ (env.g = "ok" /\ env.e = "ok") => env.q = "ok"}

(***************************************************************************)
(* The Selenium session as the agent uses it                               *)
(***************************************************************************)
Alive(w, d) == w.sessions[d].status = "alive"

\* a session just constructed; `owned` says that get_new_driver returned it
NewSession(a) == [status |-> "alive", page |-> None, quits |-> 0, owned |-> a = "ok"]

ChromeMade(w, a) ==
    IF a = "ok" THEN Returns(w, Len(w.sessions))
    ELSE Raises(w, "WebDriverException")

\* webdriver.Chrome(options=...) followed by driver.implicitly_wait(10)
Chrome(w, a) ==
    IF a = "fail" THEN Raises(Log(w, Ev("new", 0, None)), "WebDriverException")
    ELSE ChromeMade(Log([w EXCEPT !.sessions = Append(@, NewSession(a))],
                        Ev("new", Len(w.sessions) + 1, None)), a)

\* driver.get(url)
DriverGet(w, d, url, g) ==
    IF Alive(w, d) /\ g = "ok"
    THEN Returns(Log([w EXCEPT !.sessions[d].page = url], Ev("get", d, url)), d)
    ELSE Raises(Log(w, Ev("get", d, url)),
                IF Alive(w, d) /\ g = "timeout" THEN "TimeoutException"
                ELSE "WebDriverException")

\* driver.find_element(...) and the use made of the element
FindElement(w, d, e) ==
    IF Alive(w, d) /\ e = "ok"
    THEN Returns(Log(w, Ev("find", d, w.sessions[d].page)), d)
    ELSE Raises(Log(w, Ev("find", d, w.sessions[d].page)), "WebDriverException")

\* driver.save_screenshot(filename)
SaveScreenshot(w, d, e) ==
    IF Alive(w, d) /\ e = "ok"
    THEN Returns(Log(w, Ev("shot", d, w.sessions[d].page)), d)
    ELSE Raises(Log(w, Ev("shot", d, w.sessions[d].page)), "WebDriverException")

\* the session once quit() was called on it
Quitted(w, d) ==
    Log([w EXCEPT !.sessions[d].status = "dead", !.sessions[d].quits = @ + 1],
        Ev("quit", d, w.sessions[d].page))

\* driver.quit(): the session is torn down; the call itself may still raise
DriverQuit(w, d, q) ==
    IF q = "ok" THEN Returns(Quitted(w, d), d)
    ELSE Raises(Quitted(w, d), "WebDriverException")

(***************************************************************************)
(* Instance-driver lifecycle                                               *)
(***************************************************************************)
\* the second attempt of get_new_driver
FallbackResult(second) ==
    IF second.exc = "" THEN second ELSE Raises(second.w, "WebDriverSetupError")

\* a variant of get_new_driver whose except clause raises without the
\* second attempt
FirstResultNoFallback(first, env) ==
    IF first.exc = "" THEN first ELSE Raises(first.w, "WebDriverSetupError")

\* the first attempt of get_new_driver and its except clause
FirstResult(first, env) ==
    IF first.exc = "" THEN first ELSE FallbackResult(Chrome(first.w, env.a2))

get_new_driver(w, env) == FirstResult(Chrome(w, env.a1), env)

_is_driver_active(w, d) == Alive(w, d)

\* self.driver = self.get_new_driver()
SetInstanceDriver(r) ==
    IF r.exc = "" THEN Returns([r.w EXCEPT !.driver = r.ret], r.ret) ELSE r

_get_instance_driver(w, env) ==
    IF w.driver = 0 \/ ~_is_driver_active(w, w.driver)
    THEN SetInstanceDriver(get_new_driver(w, env))
    ELSE Returns(w, w.driver)

\* the finally clause of close
Closed(w) == [w EXCEPT !.driver = 0, !.current_url = None]

\* the except clause of close: a WebDriverException of quit() is printed
Swallowed(r) == Returns(Closed(r.w), 0)

\* a variant of close whose try has the finally clause only
close_without_except(w, q) ==
    IF w.driver = 0 THEN Returns(w, 0)
    ELSE IF q = "ok" THEN Swallowed(DriverQuit(w, w.driver, q))
    ELSE Raises(Closed(DriverQuit(w, w.driver, q).w), "WebDriverException")

close(w, q) ==
    IF w.driver # 0 THEN Swallowed(DriverQuit(w, w.driver, q)) ELSE Returns(w, 0)

\* `driver or self._get_instance_driver()`
ActiveDriver(w, drv, env) ==
    IF drv # 0 THEN Returns(w, drv) ELSE _get_instance_driver(w, env)

\* `raise ...Error(msg) from e` once self.close() has returned
Reraised(c, kind) == IF c.exc = "" THEN Raises(c.w, kind) ELSE c

\* a variant of the except clauses that raises without calling self.close()
FailedWithoutClose(w, d, drv, kind, q) == Raises(w, kind)

\* the except clauses of the browser methods: close the instance driver when
\* the method was called without a driver, then raise the method's error
Failed(w, d, drv, kind, q) ==
    IF drv = 0 /\ d = w.driver THEN Reraised(close(w, q), kind) ELSE Raises(w, kind)

(***************************************************************************)
(* Browser methods                                                         *)
(***************************************************************************)
\* a variant of go_to that remembers the URL whichever driver loaded it
go_to_remembering_any(r, d, url, drv, env) ==
    IF r.exc = "" THEN Returns([r.w EXCEPT !.current_url = url], d)
    ELSE Failed(r.w, d, drv, "NavigationError", env.q)

go_to_loaded(r, d, url, drv, env) ==
    IF r.exc = ""
    THEN Returns(IF d = r.w.driver THEN [r.w EXCEPT !.current_url = url] ELSE r.w, d)
    ELSE Failed(r.w, d, drv, "NavigationError", env.q)

go_to_on(a, url, drv, env) ==
    IF a.exc # "" THEN a
    ELSE go_to_loaded(DriverGet(a.w, a.ret, url, env.g), a.ret, url, drv, env)

go_to(w, url, drv, env) == go_to_on(ActiveDriver(w, drv, env), url, drv, env)

\* a result that hands back driver d when the call went through
Carry(r, d) == IF r.exc = "" THEN Returns(r.w, d) ELSE r

\* The block search, get_text and screenshot share before acting: reload
\* current_url on an instance driver that is not active, refuse a provided
\* driver that is not active.
EnsureOnPage(w, drv, active, env, kind) ==
    IF active = w.driver /\ ~_is_driver_active(w, active)
    THEN IF w.current_url = None THEN Raises(w, kind)
         ELSE Carry(go_to(w, w.current_url, active, env), active)
    ELSE IF drv # 0 /\ ~_is_driver_active(w, active) THEN Raises(w, kind)
    ELSE Returns(w, active)

\* the try block of search, get_text (find_element) and screenshot
Acted(r, d, drv, env, kind) ==
    IF r.exc = "" THEN Returns(r.w, d) ELSE Failed(r.w, d, drv, kind, env.q)

ActOn(p, drv, env, kind) ==
    IF p.exc # "" THEN p
    ELSE Acted(IF kind = "ScreenshotError" THEN SaveScreenshot(p.w, p.ret, env.e)
               ELSE FindElement(p.w, p.ret, env.e),
               p.ret, drv, env, kind)

OnPage(a, drv, env, kind) ==
    IF a.exc # "" THEN a
    ELSE ActOn(EnsureOnPage(a.w, drv, a.ret, env, kind), drv, env, kind)

search(w, query, selector, submit, drv, env) ==
    OnPage(ActiveDriver(w, drv, env), drv, env, "SearchError")

get_text(w, selector, drv, env) ==
    OnPage(ActiveDriver(w, drv, env), drv, env, "TextExtractionError")

screenshot(w, name_prefix, drv, env) ==
    OnPage(ActiveDriver(w, drv, env), drv, env, "ScreenshotError")

(***************************************************************************)
(* Subprocess and HTTP                                                     *)
(***************************************************************************)
\* the osascript attempt: the command is started in a Terminal window
Terminal(w, command, osa) ==
    IF osa = "ran" THEN Log(w, Ev("term", 0, command)) ELSE w

\* subprocess.run returned a CompletedProcess (it raised otherwise)
Completes(p) == p \in {"ok", "nonzero", "killed"}

CompletedProcess(p) ==
    [returncode |-> IF p = "ok" THEN 0 ELSE IF p = "nonzero" THEN 1 ELSE -9,
     stdout |-> "out",
     stderr |-> IF p = "nonzero" THEN "err" ELSE ""]

\* an exception with what its message mentions
RaisesMsg(w, kind, msg) == [w |-> w, exc |-> kind, ret |-> 0, msg |-> msg]

\* `if result.returncode != 0: raise CLICommandError(...)`, which the
\* `except Exception` clause wraps in a CLICommandError that quotes it
Inspected(w, result) ==
    IF result.returncode # 0
    THEN RaisesMsg(w, "CLICommandError",
                   [text |-> "Error running command", code |-> result.returncode,
                    stderr |-> result.stderr])
    ELSE Returns(w, <<result.stdout, result.stderr>>)

\* a variant of run_cli that returns the output whatever the return code
Uninspected(w, p) ==
    IF Completes(p)
    THEN Returns(w, <<CompletedProcess(p).stdout, CompletedProcess(p).stderr>>)
    ELSE RaisesMsg(w, "CLICommandError",
                   [text |-> IF p = "timeout" THEN "timed out" ELSE "Error running command",
                    code |-> None, stderr |-> None])

\* subprocess.run(command, ..., timeout=300, check=False) and what follows
Captured(w, p) ==
    IF Completes(p) THEN Inspected(w, CompletedProcess(p))
    ELSE RaisesMsg(w, "CLICommandError",
                   [text |-> IF p = "timeout" THEN "timed out" ELSE "Error running command",
                    code |-> None, stderr |-> None])

\* a variant of run_cli that runs the command in the background only when
\* the Terminal window did not run it
run_cli_in_one_place(w, command, osa, p) ==
    IF osa = "ran" THEN Returns(Terminal(w, command, osa), <<"", "">>)
    ELSE Captured(Log(w, Ev("cli", 0, command)), p)

run_cli(w, command, osa, p) ==
    Captured(Log(Terminal(w, command, osa), Ev("cli", 0, command)), p)

call_api(w, method, url, h) ==
    IF h = "ok" THEN Returns(Log(w, Ev("api", 0, url)), 0)
    ELSE Raises(Log(w, Ev("api", 0, url)), "BrowserUseAgentError")

(***************************************************************************)
(* Action handlers: (params, current_driver) -> the driver to carry on     *)
(***************************************************************************)
\* Python's `not value` for a parameter looked up with params.get
Missing(v) == v = None \/ v = ""

\* _handle_go_to after go_to returned
WentTo(r, url) ==
    IF r.exc # "" THEN r
    ELSE Returns(IF r.ret = r.w.driver THEN [r.w EXCEPT !.current_url = url] ELSE r.w,
                 r.ret)

_handle_go_to(w, params, cur, env) ==
    IF Missing(params["url"]) THEN Raises(w, "RunbookError")
    ELSE WentTo(go_to(w, params["url"], cur, env), params["url"])

\* `return current_driver` of the handlers that do not hand on a driver
ReturnCurrent(r, cur) == IF r.exc # "" THEN r ELSE Returns(r.w, cur)

\* a variant of _handle_search that calls search without looking at the
\* parameters first
_handle_search_unchecked(w, params, cur, env) ==
    ReturnCurrent(search(w, params["query"], params["selector"],
                         params["submit"] \in {None, "true"}, cur, env), cur)

_handle_search(w, params, cur, env) ==
    IF Missing(params["query"]) \/ Missing(params["selector"])
    THEN Raises(w, "RunbookError")
    ELSE ReturnCurrent(search(w, params["query"], params["selector"],
                              params["submit"] \in {None, "true"}, cur, env), cur)

_handle_get_text(w, params, cur, env) ==
    IF Missing(params["selector"]) THEN Raises(w, "RunbookError")
    ELSE ReturnCurrent(get_text(w, params["selector"], cur, env), cur)

_handle_screenshot(w, params, cur, env) ==
    ReturnCurrent(screenshot(w, IF params["name_prefix"] = None
                                THEN "runbook_screenshot" ELSE params["name_prefix"],
                             cur, env), cur)

\* a variant of _handle_cli that ends without `return current_driver`
_handle_cli_returning_none(w, params, cur, osa, p) ==
    IF Missing(params["command"]) THEN Raises(w, "RunbookError")
    ELSE ReturnCurrent(run_cli(w, params["command"], osa, p), 0)

_handle_cli(w, params, cur, osa, p) ==
    IF Missing(params["command"]) THEN Raises(w, "RunbookError")
    ELSE ReturnCurrent(run_cli(w, params["command"], osa, p), cur)

_handle_api(w, params, cur, h) ==
    IF Missing(params["url"]) THEN Raises(w, "RunbookError")
    ELSE ReturnCurrent(call_api(w, IF params["method"] = None THEN "get"
                                   ELSE params["method"], params["url"], h), cur)

action_handlers == {"go_to", "search", "get_text", "screenshot", "cli", "api"}

(***************************************************************************)
(* run_runbook                                                             *)
(***************************************************************************)
NoExc == [kind |-> "", cause |-> "", action |-> Absent, step |-> Absent, line |-> 0]

\* an error by the fields its message mentions
Error(kind, cause, action, step, at) ==
    [kind |-> kind, cause |-> cause, action |-> action, step |-> step, line |-> at]

\* no step-label line has been read
NoBoundary ==
    [run |-> 0, base |-> 0, driver |-> 0, live |-> FALSE, url |-> None,
     line |-> 0, sessions |-> 0]

Init ==
    /\ sessions = <<>>
    /\ driver = 0
    /\ current_url = None
    /\ line = BlankLine
    /\ lineNo = 0
    /\ current_runbook_driver = 0
    /\ current_step_label = None
    /\ pc = "idle"
    /\ exc = NoExc
    /\ dispatched = <<>>
    /\ boundary = NoBoundary
    /\ calls = <<>>
    /\ history = <<>>
    /\ asked = 0

\* no call of run_runbook is in progress
Idle == pc \in {"idle", "done", "raised"}

\* open(runbook_path) and f.readlines()
Open(found) ==
    /\ pc' = IF found THEN "reading" ELSE "raised"
    /\ exc' = IF found THEN NoExc
              ELSE Error("RunbookError", "FileNotFoundError", Absent, Absent, 0)
    /\ line' = BlankLine
    /\ lineNo' = 0
    /\ current_runbook_driver' = 0
    /\ current_step_label' = None
    /\ dispatched' = <<>>
    /\ boundary' = [run |-> boundary.run + 1, base |-> Len(sessions),
                    driver |-> driver,
                    live |-> driver # 0 /\ Alive(W, driver),
                    url |-> current_url,
                    line |-> 0, sessions |-> Len(sessions)]
    /\ calls' = <<>>
    /\ UNCHANGED <<sessions, driver, current_url, history, asked>>

StartRun ==
    /\ pc = "idle"
    /\ \E found \in BOOLEAN : Open(found)

\* run_runbook is called again on the agent a run has ended on
Rerun ==
    /\ pc \in {"done", "raised"}
    /\ boundary.run < MaxRuns
    /\ \E found \in BOOLEAN : Open(found)

\* the for loop takes the next line l of the file
Reads(l) ==
    /\ pc = "reading"
    /\ lineNo < MaxLines
    /\ line' = l
    /\ lineNo' = lineNo + 1

Parsed(l) == _parse_action_line(l.toks)

ReadsAction(l, name) ==
    /\ Reads(l)
    /\ Classify(l) = "action"
    /\ Parsed(l).exc = ""
    /\ Parsed(l).action = name

SetWorld(w) ==
    /\ sessions' = w.sessions
    /\ driver' = w.driver
    /\ current_url' = w.current_url
    /\ calls' = w.trace

\* blank lines, comments (and the final else branch of the loop body)
SkipLine ==
    \E l \in LineAlphabet :
       /\ Reads(l)
       /\ Classify(l) \in {"skip", "malformed"}
       /\ calls' = <<>>
       /\ UNCHANGED <<sessions, driver, current_url, current_runbook_driver,
                      current_step_label, pc, exc, dispatched, boundary, history, asked>>

\* `current_runbook_driver.quit()` then `current_runbook_driver = None`
BoundaryQuit(r) ==
    /\ SetWorld(r.w)
    /\ IF r.exc = ""
       THEN /\ current_runbook_driver' = 0
            /\ UNCHANGED <<pc, exc>>
       ELSE /\ pc' = "unwinding"
            /\ exc' = Error(r.exc, r.exc, Absent, Absent, 0)
            /\ UNCHANGED current_runbook_driver

\* a line that starts a new step
StepBoundary ==
    \E l \in LineAlphabet :
       /\ Reads(l)
       /\ Classify(l) = "label"
       /\ current_step_label' = StripColons(l)
       /\ boundary' = [boundary EXCEPT !.line = lineNo', !.sessions = Len(sessions)]
       /\ IF current_runbook_driver # 0
          THEN \E q \in QuitOutcomes :
                  BoundaryQuit(DriverQuit(W, current_runbook_driver, q))
          ELSE /\ SetWorld(W)
               /\ UNCHANGED <<current_runbook_driver, pc, exc>>
       /\ UNCHANGED <<dispatched, history, asked>>

\* a variant of the handler call in which the except clause records the
\* error and lets the loop go on to the next line instead of raising
AfterHandlerSwallowing(name, r) ==
    /\ SetWorld(r.w)
    /\ dispatched' = Append(dispatched, lineNo')
    /\ IF r.exc = ""
       THEN current_runbook_driver' = r.ret /\ UNCHANGED <<pc, exc>>
       ELSE /\ exc' = Error("RunbookError", r.exc, name, current_step_label, lineNo')
            /\ UNCHANGED <<pc, current_runbook_driver>>
    /\ UNCHANGED <<current_step_label, boundary, history, asked>>

\* the try/except around the handler call
AfterHandler(name, r) ==
    /\ SetWorld(r.w)
    /\ dispatched' = Append(dispatched, lineNo')
    /\ IF r.exc = ""
       THEN /\ current_runbook_driver' = r.ret
            /\ UNCHANGED <<pc, exc>>
       ELSE /\ pc' = "unwinding"
            /\ exc' = Error("RunbookError", r.exc, name, current_step_label, lineNo')
            /\ UNCHANGED current_runbook_driver
    /\ UNCHANGED <<current_step_label, boundary, history, asked>>

RunGoTo ==
    \E l \in LineAlphabet :
       /\ ReadsAction(l, "go_to")
       /\ \E r \in {_handle_go_to(W, Parsed(l).params, current_runbook_driver, env) :
                       env \in Env} :
             AfterHandler("go_to", r)

RunSearch ==
    \E l \in LineAlphabet :
       /\ ReadsAction(l, "search")
       /\ \E r \in {_handle_search(W, Parsed(l).params, current_runbook_driver, env) :
                       env \in Env} :
             AfterHandler("search", r)

RunGetText ==
    \E l \in LineAlphabet :
       /\ ReadsAction(l, "get_text")
       /\ \E r \in {_handle_get_text(W, Parsed(l).params, current_runbook_driver, env) :
                       env \in Env} :
             AfterHandler("get_text", r)

RunScreenshot ==
    \E l \in LineAlphabet :
       /\ ReadsAction(l, "screenshot")
       /\ \E r \in {_handle_screenshot(W, Parsed(l).params, current_runbook_driver, env) :
                       env \in Env} :
             AfterHandler("screenshot", r)

RunCli ==
    \E l \in LineAlphabet :
       /\ ReadsAction(l, "cli")
       /\ \E osa \in OsaOutcomes, p \in ProcessOutcomes :
             AfterHandler("cli", _handle_cli(W, Parsed(l).params,
                                             current_runbook_driver, osa, p))

RunApi ==
    \E l \in LineAlphabet :
       /\ ReadsAction(l, "api")
       /\ \E h \in HttpOutcomes :
             AfterHandler("api", _handle_api(W, Parsed(l).params,
                                             current_runbook_driver, h))

\* the interpreter raises without calling a handler
Aborts(e) ==
    /\ pc' = "unwinding"
    /\ exc' = e
    /\ calls' = <<>>
    /\ UNCHANGED <<sessions, driver, current_url, current_runbook_driver,
                   current_step_label, dispatched, boundary, history, asked>>

\* an action name with no handler
UnknownAction ==
    \E l \in LineAlphabet :
       /\ Reads(l)
       /\ Classify(l) = "action"
       /\ Parsed(l).exc = ""
       /\ Parsed(l).action \notin action_handlers
       /\ Aborts(Error("RunbookError", "UnknownAction", Parsed(l).action, Absent, lineNo'))

\* _parse_action_line raised
ParseFault ==
    \E l \in LineAlphabet :
       /\ Reads(l)
       /\ Classify(l) = "action"
       /\ Parsed(l).exc # ""
       /\ Aborts(Error("RunbookError", Parsed(l).exc, Absent, Absent, lineNo'))

\* how the call ends once the finally clause has run
Ended == IF pc = "unwinding" THEN "raised" ELSE "done"

\* `current_runbook_driver.quit()` in the finally clause
FinalQuit(r) ==
    /\ SetWorld(r.w)
    /\ IF r.exc = ""
       THEN /\ pc' = Ended
            /\ exc' = exc
       ELSE /\ pc' = "raised"
            /\ exc' = Error(r.exc, r.exc, Absent, Absent, 0)

\* the finally clause: after the last line of the file, or while an exception
\* unwinds
Finalize ==
    /\ pc \in {"reading", "unwinding"}
    /\ IF current_runbook_driver # 0
       THEN \E q \in QuitOutcomes : FinalQuit(DriverQuit(W, current_runbook_driver, q))
       ELSE /\ pc' = Ended
            /\ calls' = <<>>
            /\ UNCHANGED <<sessions, driver, current_url, exc>>
    /\ UNCHANGED <<line, lineNo, current_runbook_driver, current_step_label,
                   dispatched, boundary, history, asked>>

\* the caller gets what close() returns or raises
AfterClose(r) ==
    /\ SetWorld(r.w)
    /\ exc' = IF r.exc = "" THEN exc ELSE Error(r.exc, r.exc, Absent, Absent, 0)

\* agent.close(), called between runs
Close ==
    /\ Idle
    /\ \E q \in QuitOutcomes : AfterClose(close(W, q))
    /\ UNCHANGED <<line, lineNo, current_runbook_driver, current_step_label,
                   pc, dispatched, boundary, history, asked>>

\* the caller gets what a method of the agent returns or raises
AfterCall(r) ==
    /\ SetWorld(r.w)
    /\ exc' = IF r.exc = "" THEN NoExc ELSE Error(r.exc, r.exc, Absent, Absent, 0)
    /\ UNCHANGED <<line, lineNo, current_runbook_driver, current_step_label,
                   pc, dispatched, boundary, history, asked>>

\* the drivers the caller can pass to a method: those get_new_driver returned
CallerDrivers == {s \in 1..Len(sessions) : sessions[s].owned}

\* driver = agent.get_new_driver(), called before a run
CallGetNewDriver ==
    /\ pc = "idle"
    /\ Len(sessions) < MaxDrivers
    /\ \E a1 \in ChromeOutcomes, a2 \in ChromeOutcomes :
          AfterCall(get_new_driver(W, [a1 |-> a1, a2 |-> a2, g |-> "ok",
                                       e |-> "ok", q |-> "ok"]))

\* agent.go_to(url) or agent.go_to(url, driver=d), called before a run
CallGoTo ==
    /\ pc = "idle"
    /\ Len(sessions) <= MaxDrivers
    /\ \E drv \in {0} \cup CallerDrivers, env \in Env :
          AfterCall(go_to(W, U1, drv, env))

\* environment: a live browser session the agent holds is torn down from
\* outside (the browser is closed or crashes)
SessionCrash ==
    /\ pc = "reading"
    /\ \E s \in {driver, current_runbook_driver} \ {0} :
          /\ sessions[s].status = "alive"
          /\ sessions' = [sessions EXCEPT ![s].status = "dead"]
    /\ UNCHANGED <<driver, current_url, line, lineNo, current_runbook_driver,
                   current_step_label, pc, exc, dispatched, boundary, calls,
                   history, asked>>

Next ==
    \/ StartRun
    \/ SkipLine
    \/ StepBoundary
    \/ RunGoTo
    \/ RunSearch
    \/ RunGetText
    \/ RunScreenshot
    \/ RunCli
    \/ RunApi
    \/ UnknownAction
    \/ ParseFault
    \/ Finalize
    \/ Close
    \/ SessionCrash

Spec == Init /\ [][Next]_vars

\* Several run_runbook calls, one after the other, on one agent: runbooks of
\* step labels and screenshot actions, the agent being left as the run left it.
NextRuns ==
    \/ StartRun
    \/ Rerun
    \/ StepBoundary
    \/ RunScreenshot
    \/ Finalize

SpecRuns == Init /\ [][NextRuns]_vars

\* The agent's methods called directly, then a runbook of step labels and
\* go_to actions run on the same agent.
NextCalls ==
    \/ CallGetNewDriver
    \/ CallGoTo
    \/ StartRun
    \/ StepBoundary
    \/ RunGoTo
    \/ Finalize

SpecCalls == Init /\ [][NextCalls]_vars

(***************************************************************************)
(* AIAgent (src/ai_agent/src/agent.py): execute_cli_command,               *)
(* make_api_request and browser_action, each of which builds a result      *)
(* record and appends it to self.history, in its try block or in its       *)
(* `except Exception` clause.                                              *)
(***************************************************************************)
PopenOutcomes == {"exit 0", "exit 1", "raises"}      \* Popen(...).communicate()
RequestOutcomes == {"200", "404", "raises"}          \* requests.request(...)
PlaywrightOutcomes == {"ok", "raises"}               \* launch, goto, click, ...

\* the result of an action that went through, and of one that raised
ResultRecord(type, success) == [type |-> type, success |-> success, error |-> FALSE]
ErrorRecord(type) == [type |-> type, success |-> FALSE, error |-> TRUE]

\* a variant of execute_cli_command whose except clause returns error_result
\* without appending it
execute_cli_command_unrecorded(h, o) ==
    IF o = "raises" THEN h
    ELSE Append(h, ResultRecord("cli", o = "exit 0"))

execute_cli_command(h, o) ==
    IF o = "raises" THEN Append(h, ErrorRecord("cli"))
    ELSE Append(h, ResultRecord("cli", o = "exit 0"))

make_api_request(h, o) ==
    IF o = "raises" THEN Append(h, ErrorRecord("api"))
    ELSE Append(h, ResultRecord("api", o = "200"))

browser_action(h, o) ==
    IF o = "raises" THEN Append(h, ErrorRecord("browser"))
    ELSE Append(h, ResultRecord("browser", TRUE))

\* what BrowserUseAgent holds: no method of AIAgent touches it
agentVars == <<sessions, driver, current_url, line, lineNo,
               current_runbook_driver, current_step_label, pc, exc,
               dispatched, boundary, calls>>

ExecuteCliCommand ==
    /\ asked < MaxActions
    /\ asked' = asked + 1
    /\ \E o \in PopenOutcomes : history' = execute_cli_command(history, o)
    /\ UNCHANGED agentVars

MakeApiRequest ==
    /\ asked < MaxActions
    /\ asked' = asked + 1
    /\ \E o \in RequestOutcomes : history' = make_api_request(history, o)
    /\ UNCHANGED agentVars

BrowserAction ==
    /\ asked < MaxActions
    /\ asked' = asked + 1
    /\ \E o \in PlaywrightOutcomes : history' = browser_action(history, o)
    /\ UNCHANGED agentVars

NextAIAgent ==
    \/ ExecuteCliCommand
    \/ MakeApiRequest
    \/ BrowserAction

SpecAIAgent == Init /\ [][NextAIAgent]_vars

(***************************************************************************)
(* Vocabulary of the properties                                            *)
(***************************************************************************)
Sessions == 1..Len(sessions)
AliveSessions == {s \in Sessions : sessions[s].status = "alive"}
\* live sessions that get_new_driver handed to the agent
AcquiredAlive == {s \in AliveSessions : sessions[s].owned}

\* the calls of kind op in a call log
CallsOf(log, op) == {i \in DOMAIN log : log[i].op = op}
QuitCalls(log, s) == {i \in CallsOf(log, "quit") : log[i].s = s}
\* find_element / save_screenshot calls
PageCalls(log) == CallsOf(log, "find") \cup CallsOf(log, "shot")
\* calls that carry out a browser, CLI or API action
ActionCalls(log) ==
    PageCalls(log) \cup CallsOf(log, "get") \cup CallsOf(log, "new")
        \cup CallsOf(log, "cli") \cup CallsOf(log, "term") \cup CallsOf(log, "api")

Aborting == pc \in {"unwinding", "raised"}
\* the error in flight was raised by the handler of the line the loop is at
HandlerFailed ==
    /\ exc.kind = "RunbookError"
    /\ exc.action \in action_handlers
\* the loop is at an action line whose name has no handler
AtUnknownAction ==
    /\ lineNo > 0
    /\ Classify(line) = "action"
    /\ Parsed(line).exc = ""
    /\ Parsed(line).action \notin action_handlers
\* this step hands the line it takes to the handler of one of the names
HandlerRuns(names) ==
    /\ dispatched' # dispatched
    /\ Parsed(line').action \in names
\* search, get_text or screenshot is entered without a live driver
PageHandlerWithoutDriver ==
    /\ HandlerRuns({"search", "get_text", "screenshot"})
    /\ current_runbook_driver = 0 \/ current_runbook_driver \notin AliveSessions

(***************************************************************************)
(* Properties                                                              *)
(***************************************************************************)

\* C1: at every step-label line reached while a session acquired earlier in
\* the run is still alive, quit is called on that session exactly once in
\* the step-boundary step (so before the next handler is dispatched) and the
\* interpreter's handle is None when the loop goes on.
C1_BoundaryReleasesLiveSession ==
    [][StepBoundary =>
          \A s \in AcquiredAlive :
             /\ Cardinality(QuitCalls(calls', s)) = 1
             /\ (pc' = "reading" => current_runbook_driver' = 0)]_vars

\* C2: when run_runbook returns normally, no session acquired during the run
\* is still alive.
C2_NormalReturnReleasesSessions ==
    pc = "done" => AcquiredAlive = {}

\* C3: when run_runbook ends by raising because an action line failed (a
\* handler raised, a parse error, an unknown action), no session acquired
\* during the run is still alive.
C3_FailedRunReleasesSessions ==
    (pc = "raised" /\ exc.kind = "RunbookError" /\ exc.line > 0)
        => AcquiredAlive = {}

\* C4: at every moment of a run at most one session created by the agent is
\* alive.
C4_AtMostOneLiveSession ==
    Cardinality(AliveSessions) <= 1

\* C5: once a handler has raised, no later action line is dispatched and the
\* run ends in an error; the dispatched actions end with the failing one.
C5_HandlerFailureStopsRun ==
    /\ [](HandlerFailed =>
            /\ Aborting
            /\ dispatched # <<>>
            /\ dispatched[Len(dispatched)] = exc.line
            /\ lineNo = exc.line)
    /\ [][(HandlerFailed \/ Aborting) =>
            /\ dispatched' = dispatched
            /\ lineNo' = lineNo
            /\ pc' \in {"unwinding", "raised"}]_vars

\* a run that dispatched an action, then one whose handler raised, and ended
C5_Witness ==
    /\ pc = "raised"
    /\ HandlerFailed
    /\ Len(dispatched) >= 2
    /\ lineNo < MaxLines

\* C6: when an action line names an action without a handler, run_runbook
\* raises RunbookError naming the action and the line number, and the cleanup
\* that follows executes no action.
C6_UnknownActionRaisesRunbookError ==
    (AtUnknownAction /\ pc = "raised") =>
        /\ exc.kind = "RunbookError"
        /\ exc.action = Parsed(line).action
        /\ exc.line = lineNo
        /\ ActionCalls(calls) = {}

\* C7: every failure that escapes run_runbook is a RunbookError.
C7_OnlyRunbookErrorEscapes ==
    pc = "raised" => exc.kind = "RunbookError"

\* C8: a failure raised while an action line of a step is processed carries
\* the action name, the label of the step and the line number.
C8_ErrorNamesActionStepLine ==
    (Aborting /\ exc.kind = "RunbookError" /\ exc.line > 0
              /\ current_step_label # None) =>
        /\ exc.line = lineNo
        /\ exc.step = current_step_label
        /\ (Parsed(line).exc = "" => exc.action = Parsed(line).action)

\* C9: when search, get_text or screenshot is entered without a live driver
\* and the agent remembers a URL, every find_element / save_screenshot call
\* it makes is on a session that has loaded that URL.
C9_ReloadsRememberedUrl ==
    [][(PageHandlerWithoutDriver /\ current_url # None) =>
          \A i \in PageCalls(calls') : calls'[i].url = current_url]_vars

\* C10: when search, get_text or screenshot is entered without a live driver
\* and the agent remembers no URL, the handler fails and makes no
\* find_element / save_screenshot call on a session that has loaded no page.
C10_FailsFastWithoutUrl ==
    [][(PageHandlerWithoutDriver /\ current_url = None) =>
          /\ pc' = "unwinding"
          /\ exc'.kind = "RunbookError"
          /\ \A i \in PageCalls(calls') : calls'[i].url # None]_vars

\* a handler is dispatched for the line the loop takes
Dispatch == HandlerRuns(action_handlers)
\* get / find_element / save_screenshot calls: the browser actions
BrowserCalls(log) == PageCalls(log) \cup CallsOf(log, "get")
\* no handler has been dispatched since the latest step-label line
FirstOfStep ==
    dispatched = <<>> \/ dispatched[Len(dispatched)] < boundary.line

\* C11: the first handler dispatched after a step-label line receives the
\* handle None, and every browser action of the step runs on a session
\* constructed after that step-label line.
C11_NoHandleAcrossStepBoundary ==
    [][(Dispatch /\ boundary.line > 0) =>
          /\ (FirstOfStep => current_runbook_driver = 0)
          /\ \A i \in BrowserCalls(calls') : calls'[i].s > boundary.sessions]_vars

\* C12: a cli or api action hands back the handle it was given, constructs,
\* quits and navigates no session and leaves self.driver and self.current_url
\* as they were, whether the handle is None or a session.
C12_CliApiLeaveDriverAlone ==
    [][HandlerRuns({"cli", "api"}) =>
          /\ current_runbook_driver' = current_runbook_driver
          /\ sessions' = sessions
          /\ driver' = driver
          /\ current_url' = current_url
          /\ BrowserCalls(calls') \cup CallsOf(calls', "new")
                \cup CallsOf(calls', "quit") = {}]_vars

\* a cli or api action has returned while the interpreter tracks a session
C12_Witness ==
    /\ pc = "reading"
    /\ lineNo > 0
    /\ Classify(line) = "action"
    /\ Parsed(line).action \in {"cli", "api"}
    /\ dispatched # <<>>
    /\ dispatched[Len(dispatched)] = lineNo
    /\ CallsOf(calls, "cli") \cup CallsOf(calls, "api") # {}
    /\ current_runbook_driver # 0

\* the errors that wrap a driver fault
FaultKinds == {"NavigationError", "SearchError", "TextExtractionError", "ScreenshotError"}
\* a browser handler is dispatched and its method raises one of FaultKinds
BrowserHandlerFaults ==
    /\ HandlerRuns({"go_to", "search", "get_text", "screenshot"})
    /\ pc' = "unwinding"
    /\ exc'.cause \in FaultKinds

C14_CloseIdempotentTotal ==
    /\ [][Close =>
            /\ driver' = 0
            /\ current_url' = None
            /\ exc' = exc
            /\ (driver = 0 => calls' = <<>>)
            /\ (driver # 0 => Cardinality(QuitCalls(calls', driver)) = 1)]_vars
    /\ [](driver = 0 => current_url = None)

\* close() has just quit an instance driver that remembered a URL
C14_Witness ==
    /\ pc \in {"done", "raised"}
    /\ driver = 0
    /\ CallsOf(calls, "quit") # {}
    /\ \E s \in Sessions : sessions[s].page # None /\ sessions[s].status = "dead"

\* the construction attempts logged in a call log
Attempts(log) == Cardinality(CallsOf(log, "new"))
\* the outcomes of the two attempts as get_new_driver takes them
Attempted(a1, a2) == [a1 |-> a1, a2 |-> a2, g |-> "ok", e |-> "ok", q |-> "ok"]
\* what get_new_driver owes its caller when the attempts end as env says
NewDriverContract(env, r) ==
    /\ Attempts(r.w.trace) <= 2
    /\ env.a1 = "ok" =>
          /\ r.exc = ""
          /\ Attempts(r.w.trace) = 1
          /\ r.ret = r.w.trace[1].s
    /\ (env.a1 # "ok" /\ env.a2 = "ok") =>
          /\ r.exc = ""
          /\ Attempts(r.w.trace) = 2
          /\ r.ret = r.w.trace[2].s
          /\ r.ret > Len(sessions)
          /\ r.w.sessions[r.ret].status = "alive"
    /\ (env.a1 # "ok" /\ env.a2 # "ok") =>
          /\ r.exc = "WebDriverSetupError"
          /\ Attempts(r.w.trace) = 2

CliContract(p, r) ==
    /\ r.exc \in {"", "CLICommandError"}
    /\ r.exc = "" <=> (Completes(p) /\ CompletedProcess(p).returncode = 0)
    /\ r.exc = "" => r.ret = <<CompletedProcess(p).stdout, CompletedProcess(p).stderr>>
    /\ (Completes(p) /\ CompletedProcess(p).returncode # 0) =>
          /\ r.msg.code = CompletedProcess(p).returncode
          /\ r.msg.stderr = CompletedProcess(p).stderr

\* C16: run_cli returns (stdout, stderr) exactly when the command exits with
\* code 0; a non-zero exit code raises CLICommandError carrying the code and
\* the captured stderr, a timeout raises CLICommandError, and no other kind
\* of error leaves run_cli.
C16_CliErrorContract ==
    /\ [](\A osa \in OsaOutcomes, p \in ProcessOutcomes :
             CliContract(p, run_cli(W, "x", osa, p)))
    /\ [][(HandlerRuns({"cli"}) /\ CallsOf(calls', "cli") # {}) =>
            IF pc' = "unwinding" THEN exc'.cause = "CLICommandError"
            ELSE exc' = exc]_vars

\* a cli action whose command was run has failed
C16_Witness ==
    /\ pc = "unwinding"
    /\ exc.action = "cli"
    /\ exc.cause = "CLICommandError"
    /\ CallsOf(calls, "cli") # {}

\* the error of a failed api action is in flight
ApiFailureInFlight ==
    /\ pc = "unwinding"
    /\ exc.action = "api"
    /\ exc.cause = "BrowserUseAgentError"

\* C17: a transport fault or a 4xx/5xx response makes call_api raise
\* BrowserUseAgentError, the failed api action leaves the interpreter's
\* handle as it was, and the run ends by raising RunbookError.
C17_ApiFailureAbortsRun ==
    /\ [](\A h \in HttpOutcomes \ {"ok"} :
             call_api(W, "get", U1, h).exc = "BrowserUseAgentError")
    /\ [][(HandlerRuns({"api"}) /\ CallsOf(calls', "api") # {} /\ pc' = "unwinding") =>
            /\ exc'.kind = "RunbookError"
            /\ exc'.cause = "BrowserUseAgentError"
            /\ current_runbook_driver' = current_runbook_driver]_vars
    /\ [][(ApiFailureInFlight /\ pc' = "raised") => exc'.kind = "RunbookError"]_vars

\* The parameters of an action text read with its quotes: the tokens from
\* an opening quote to the closing one are one value, quotes stripped.
\* `open` is the key of the quoted value being read, "" outside quotes.
RECURSIVE QuotedParams(_, _, _, _)
QuotedParams(parts, i, params, open) ==
    IF i > Len(parts) THEN params
    ELSE IF open # ""
    THEN QuotedParams(parts, i + 1,
                      [params EXCEPT ![open] = @ \o " " \o parts[i].val],
                      IF parts[i].rq # "" THEN "" ELSE open)
    ELSE IF parts[i].eq
    THEN QuotedParams(parts, i + 1,
                      [params EXCEPT ![parts[i].key] = parts[i].val],
                      IF parts[i].lq # "" /\ parts[i].rq = "" THEN parts[i].key ELSE "")
    ELSE QuotedParams(parts, i + 1, params, "")

\* the loop is at an action line that parses
AtParsedAction ==
    /\ lineNo > 0
    /\ Classify(line) = "action"
    /\ Parsed(line).exc = ""

\* C18: _parse_action_line returns the first word as the action name and
\* every key=value as a parameter with its quotes stripped, a quoted value
\* with a space in it being kept as one parameter.
C18_QuotedValueKeptWhole ==
    AtParsedAction =>
        /\ Parsed(line).action = line.toks[1].val
        /\ Parsed(line).params = QuotedParams(line.toks, 2, NoParams, "")

\* the loop takes a line that is neither blank nor a comment
TakesLine ==
    /\ lineNo' = lineNo + 1
    /\ ~(line'.pre = "" /\ ~line'.marker)
    /\ ~StartsWithHash(line')

\* C19: a non-blank, non-comment line is an action line exactly when it
\* contains ACTION: - it is then parsed and dispatched (or rejected by the
\* parser or the handler table) and the step stays as it is - and every other
\* such line starts a new step and dispatches nothing.
C19_ActionIffMarker ==
    [][TakesLine =>
          IF line'.marker
          THEN /\ current_step_label' = current_step_label
               /\ boundary' = boundary
               /\ dispatched' # dispatched \/ pc' = "unwinding"
          ELSE /\ current_step_label' = StripColons(line')
               /\ boundary'.line = lineNo'
               /\ dispatched' = dispatched]_vars

\* the sessions constructed before the run_runbook call in progress
EarlierRunSessions == 1..boundary.base
\* the browser calls (get, find_element, save_screenshot, quit) in a log
SessionCalls(log) == {i \in DOMAIN log : log[i].s # 0}

\* a call of the log is made on a session of an earlier run_runbook call
UsesEarlierSession(log) ==
    \E i \in SessionCalls(log) : log[i].s \in EarlierRunSessions

\* a run_runbook call is in progress
InRun == pc \in {"reading", "unwinding"}

\* C20: no driver handle is used by two runbook runs - while a run_runbook
\* call is in progress on an agent, none of its steps navigates, queries or
\* quits a session that was constructed before that call began.
C20_NoSessionSharedAcrossRuns ==
    [][UsesEarlierSession(calls') => ~InRun]_vars

\* the blank and comment lines of the alphabet
IgnoredLines == {BlankLine, CommentLine, CommentedActionLine}
\* the loop takes a blank or comment line
TakesIgnoredLine ==
    /\ lineNo' = lineNo + 1
    /\ line' \in IgnoredLines

\* C24: a blank line or a comment line - a commented-out action included -
\* starts no step, releases no driver, dispatches no action and makes no
\* call: but for the line counter the run is where it was before the line,
\* so the handler calls and releases that follow are those of the runbook
\* without the line.
C24_IgnoredLinesHaveNoEffect ==
    [][TakesIgnoredLine =>
          /\ UNCHANGED <<sessions, driver, current_url, current_runbook_driver,
                         current_step_label, pc, exc, dispatched, boundary>>
          /\ calls' = <<>>]_vars

\* a commented-out action was skipped inside a step that tracks a live session
C24_Witness ==
    /\ pc = "reading"
    /\ line = CommentedActionLine
    /\ lineNo = 3
    /\ current_step_label # None
    /\ current_runbook_driver \in AliveSessions

\* the parameters an action cannot do without
RequiredParams(name) ==
    CASE name \in {"go_to", "api"} -> {"url"}
      [] name = "search" -> {"query", "selector"}
      [] name = "get_text" -> {"selector"}
      [] name = "cli" -> {"command"}
      [] OTHER -> {}
\* a required parameter of the action of line l is absent or empty
LacksRequired(l) ==
    \E k \in RequiredParams(Parsed(l).action) : Parsed(l).params[k] \in {None, ""}

\* C25: a handler dispatched for a line that lacks a required parameter
\* (absent or empty) raises RunbookError and has constructed, used or quit no
\* session, started no subprocess and issued no HTTP request.
C25_ValidatesBeforeSideEffects ==
    [][(Dispatch /\ LacksRequired(line')) =>
          /\ pc' = "unwinding"
          /\ exc'.kind = "RunbookError"
          /\ exc'.cause = "RunbookError"
          /\ calls' = <<>>
          /\ UNCHANGED <<sessions, driver, current_url, current_runbook_driver>>]_vars

\* a search without selector was refused while a live session was tracked
C25_Witness ==
    /\ pc = "unwinding"
    /\ line = SearchNoSelectorLine
    /\ exc.action = "search"
    /\ exc.cause = "RunbookError"
    /\ dispatched[Len(dispatched)] = lineNo
    /\ current_runbook_driver \in AliveSessions

\* the handler dispatched in this step works on the handle it was passed
UsesPassedHandle ==
    current_runbook_driver # 0 =>
        \A i \in BrowserCalls(calls') : calls'[i].s = current_runbook_driver

\* C26: every action line the loop takes (a line that contains ACTION: and
\* is not a comment) is handed to its handler in the
\* step that takes it - so in file order, once, the handler returning before
\* the next line is taken - unless the run stops at that line with an error;
\* the handler works on the handle the interpreter holds, which no line but
\* a step label or an action line changes; no other line dispatches anything.
C26_DispatchesActionLinesInOrder ==
    [][lineNo' = lineNo + 1 =>
          IF line'.marker /\ line' \notin IgnoredLines
          THEN \/ pc' = "unwinding"
               \/ /\ dispatched' = Append(dispatched, lineNo')
                  /\ UsesPassedHandle
          ELSE /\ dispatched' = dispatched
               /\ current_runbook_driver' \in {current_runbook_driver, 0}]_vars

\* C27: over run_runbook calls and close(), quit is called at most once on
\* each session, and self.driver never refers to a session that has been
\* quit.
C27_SessionQuitAtMostOnce ==
    /\ \A s \in Sessions : sessions[s].quits <= 1
    /\ driver # 0 => sessions[driver].quits = 0

\* C29: every session get_new_driver constructed is the one it returned or
\* has been torn down, also when implicitly_wait fails on a session that was
\* constructed.
C29_NoSessionAbandoned ==
    \A s \in AliveSessions : sessions[s].owned

\* the line taken starts a new step
HandledAsLabel ==
    /\ boundary'.line = lineNo'
    /\ current_step_label' = StripColons(line')
    /\ dispatched' = dispatched
\* the line taken is parsed as an action: dispatched, or refused with an
\* error that names the line
HandledAsAction ==
    /\ boundary' = boundary
    /\ current_step_label' = current_step_label
    /\ \/ dispatched' = Append(dispatched, lineNo')
       \/ pc' = "unwinding" /\ exc'.line = lineNo' /\ dispatched' = dispatched

\* C30: every line that is neither blank nor a comment is handled as a step
\* label or as an action line, never as both and never as neither: no line
\* reaches the 'Ignoring malformed line' branch.
C30_ClassificationExhaustive ==
    /\ [][(lineNo' = lineNo + 1 /\ line' \notin IgnoredLines) =>
            HandledAsLabel # HandledAsAction]_vars
    /\ [](\A l \in LineAlphabet : Classify(l) # "malformed")

\* the line 'Deploy ACTION: cli command=x' was handled (as a step label)
\* after an action had been dispatched
C30_Witness ==
    /\ pc = "reading"
    /\ line = PrefixedLine
    /\ boundary.line = lineNo
    /\ dispatched # <<>>

\* the cli handler is dispatched for a line that has a command
CliRuns == HandlerRuns({"cli"}) /\ ~LacksRequired(line')
\* the outcome of run_cli does not depend on how the osascript attempt ended
TerminalNeverFailsCli ==
    \A osa \in OsaOutcomes, p \in ProcessOutcomes :
        /\ run_cli(W, "x", osa, p).exc = Captured(W, p).exc
        /\ run_cli(W, "x", osa, p).ret = Captured(W, p).ret

\* C28 as stated: a cli action starts its command one single time - counting
\* subprocess.run(command, shell=True) and `do script` in a Terminal window -
\* whatever the outcome of the Terminal-window attempt, and that attempt never
\* makes the action fail.
C28_CommandStartedOnce ==
    /\ [][CliRuns =>
            Cardinality(CallsOf(calls', "cli") \cup CallsOf(calls', "term")) = 1]_vars
    /\ []TerminalNeverFailsCli

\* C28 amended: a cli action runs its command exactly once in the
\* background, after the Terminal-window attempt whatever its outcome, and
\* at most once more in a Terminal window, before the background run, when
\* osascript ran; the attempt never makes the action fail.
C28_CommandCapturedOnce ==
    /\ [][CliRuns =>
            /\ Cardinality(CallsOf(calls', "cli")) = 1
            /\ Cardinality(CallsOf(calls', "term")) <= 1
            /\ calls'[Len(calls')].op = "cli"]_vars
    /\ []TerminalNeverFailsCli

\* a cli action whose command ran in a Terminal window and in the background
C28_Witness ==
    /\ pc = "reading"
    /\ line = CliLine
    /\ CallsOf(calls, "term") # {}
    /\ CallsOf(calls, "cli") # {}

\* what a go_to(url, driver=drv) that returned owes its caller
GoToContract(url, drv, r) ==
    r.exc = "" =>
        /\ r.w.sessions[r.ret].page = url
        /\ drv = 0 =>
              /\ r.w.driver = r.ret
              /\ r.w.current_url = url
        /\ (drv # 0 /\ drv # driver) =>
              /\ r.ret = drv
              /\ r.w.driver = driver
              /\ r.w.current_url = current_url

\* C22: a go_to without driver argument that succeeds leaves self.driver on
\* the session that loaded the URL and self.current_url on the URL; a go_to
\* on a provided driver other than self.driver returns that driver and
\* leaves self.driver and self.current_url as they were.
\* It is checked of every call the caller can make between runs, and of the
\* go_to the handler makes without a driver during a run.
C22_GoToRemembersInstanceOnly ==
    /\ [](pc = "idle" =>
            \A drv \in {0} \cup CallerDrivers, env \in Env :
                GoToContract(U2, drv, go_to(W, U2, drv, env)))
    /\ [][(HandlerRuns({"go_to"}) /\ current_runbook_driver = 0 /\ pc' = "reading") =>
            /\ driver' = current_runbook_driver'
            /\ current_url' = Parsed(line').params["url"]
            /\ sessions'[driver'].page = current_url']_vars

\* go_to has loaded a page on a provided driver and on the instance driver
C22_Witness ==
    /\ pc = "idle"
    /\ driver \in AliveSessions
    /\ sessions[driver].page = U1
    /\ current_url = U1
    /\ \E s \in CallerDrivers \ {driver} :
          sessions[s].page = U1 /\ sessions[s].status = "alive"

\* a call of the log is made on the session self.driver referred to when
\* run_runbook was called, and that session was live then
TouchesHeldSession(log) ==
    /\ boundary.live
    /\ \E i \in SessionCalls(log) : log[i].s = boundary.driver
\* run_runbook returns or raises in this step
RunEnds == InRun /\ pc' \in {"done", "raised"}
\* self.driver and self.current_url are what they were when the run began
FieldsAsBefore ==
    /\ driver' = boundary.driver
    /\ current_url' = boundary.url

\* C21: a run neither navigates nor quits a live session the agent held in
\* self.driver when run_runbook was called, and when the run ends
\* self.driver and self.current_url have the values they had when it began.
C21_RunLeavesInstanceDriverAlone ==
    /\ [][TouchesHeldSession(calls') => ~InRun]_vars
    /\ [][RunEnds => FieldsAsBefore]_vars

\* C23: every call of execute_cli_command, make_api_request or
\* browser_action leaves the history one record longer, the new record last
\* and carrying success true or false (false when the action raised), and the
\* records appended earlier in place and as they were.
C23_HistoryAppendOnly ==
    [][asked' = asked + 1 =>
          /\ Len(history') = Len(history) + 1
          /\ SubSeq(history', 1, Len(history)) = history
          /\ history'[Len(history')].success \in BOOLEAN
          /\ history'[Len(history')].error => ~history'[Len(history')].success]_vars

\* a CLI command that raised, an API request answered 404 and a browser
\* action that went through, recorded in that order
C23_Witness ==
    /\ asked = 3
    /\ Len(history) = 3
    /\ history[1] = ErrorRecord("cli")
    /\ history[2] = ResultRecord("api", FALSE)
    /\ history[3] = ResultRecord("browser", TRUE)

====
